---- MODULE Spec2Model ----
(***************************************************************************)
(* State-machine model of src/src/midi_alsa.c: the ALSA MIDI output layer  *)
(* of PCem.  The static variables of the file are the state; each public   *)
(* function (midi_init, midi_close, midi_write, midi_get_num_devs,         *)
(* midi_get_dev_name) is one action that runs the whole call, the static   *)
(* helpers it reaches included.  The ALSA library and the configuration    *)
(* are the environment: what they answer is drawn from small sets.         *)
(***************************************************************************)
EXTENDS Integers, Sequences, FiniteSets, TLC

VARIABLES
    initialized,        \* static bool initialized
    midi_output_count,  \* static size_t midi_output_count
    midi_outputs,       \* static midi_output_t midi_outputs[]: the entries written so far
                        \* (entry i of the array is midi_outputs[i + 1]; the rest is zero)
    current_output,     \* static midi_output_t *current_output, as an index, or NULL
    sequencer_env,      \* static sequencer_env_t sequencer_env
    rawmidi_env,        \* static rawmidi_env_t rawmidi_env
    live,               \* ghost: host resources acquired by open and not yet released
    first_query,        \* ghost: the result of the first midi_query call, "none" before it
    discovered_from,    \* ghost: the host the successful discovery ran against
    last,               \* ghost: the last public call, its result and the ALSA calls it made
    scan                \* the place of a midi_query that runs one backend call at a time,
                        \* and its locals

vars == <<initialized, midi_output_count, midi_outputs, current_output,
          sequencer_env, rawmidi_env, live, first_query, discovered_from, last, scan>>

-----------------------------------------------------------------------------
(* Program constants *)

MAX_MIDI_DEVICES == 128
MAX_RAWMIDI_SUBDEVICES == 32
MAX_CTL_NAME_LEN == 32
MAX_DEVICE_NAME_LEN == 50

\* snd_seq_addr_t holds two unsigned chars
UCHAR_MOD == 256
SND_SEQ_ADDRESS_SUBSCRIBERS == 254
SND_SEQ_ADDRESS_UNKNOWN == 253

\* current_output == NULL
NULL == -1

-----------------------------------------------------------------------------
(* Bounds of the model *)

\* sub-devices one device unit of the large host reports (more than
\* MAX_RAWMIDI_SUBDEVICES), and ports one client of the large host has
BigSubs == 40
BigPorts == 70
\* data bytes of one system-exclusive message a run feeds to the codec
MaxSysexData == 2
\* raw ports held open at once before the host refuses another open
MaxRawOpen == 1
\* the cards, device units of a card, clients and ports of a client of the
\* hosts the stepwise discovery walks
ScanCards == 2
ScanDevs == 2
ScanClients == 2
ScanPorts == 2

Min(a, b) == IF a < b THEN a ELSE b
Max(a, b) == IF a > b THEN a ELSE b

\* snprintf that keeps `size` characters, leaving no room for the terminator
snprintf_no_terminator(size, text) == SubSeq(text, 1, Min(Len(text), size))

\* snprintf(buf, size, ...): the formatted text cut to size - 1 characters
snprintf(size, text) == SubSeq(text, 1, Min(Len(text), size - 1))

-----------------------------------------------------------------------------
(* The host: what the ALSA enumeration primitives answer during one        *)
(* discovery.                                                               *)
(*  raw.first_next : the first snd_card_next succeeds                       *)
(*  raw.cards      : the cards snd_card_next walks, each with               *)
(*     name_ok     : snd_card_get_name succeeds                             *)
(*     ctl_ok      : snd_ctl_open succeeds                                  *)
(*     first_dev_ok: the first snd_ctl_rawmidi_next_device succeeds         *)
(*     devices     : the device units snd_ctl_rawmidi_next_device walks,    *)
(*                   info_ok: the output-stream snd_ctl_rawmidi_info on     *)
(*                   the unit succeeds; sub_nr: its sub-device count;       *)
(*                   sub_fail: the sub-devices whose info query fails       *)
(*     next_ok     : the snd_card_next after this card succeeds             *)
(*  seq.open_ok    : snd_seq_open succeeds                                  *)
(*  seq.clients    : the clients snd_seq_query_next_client walks, with the  *)
(*                   ports snd_seq_query_next_port walks                    *)
(***************************************************************************)

Dev(d, n, bad) == [device |-> d, info_ok |-> TRUE, sub_nr |-> n, sub_fail |-> bad]
DevNoOut(d) == [device |-> d, info_ok |-> FALSE, sub_nr |-> 0, sub_fail |-> {}]
Card(c, nm, devs) ==
    [card |-> c, shortname |-> nm, name_ok |-> TRUE, ctl_ok |-> TRUE,
     first_dev_ok |-> TRUE, devices |-> devs, next_ok |-> TRUE]

Port(p, ty, cp) == [port |-> p, type |-> ty, caps |-> cp]
OutPort(p) == Port(p, {"MIDI_GENERIC"}, {"WRITE", "SUBS_WRITE"})
Client(c, nm, ps) == [client |-> c, name |-> nm, ports |-> ps]

RawFail == [first_next |-> FALSE, cards |-> <<>>]
RawNone == [first_next |-> TRUE, cards |-> <<>>]
RawSmall == [first_next |-> TRUE,
             cards |-> << Card(1, "Synth", << Dev(2, 1, {}) >>) >>]
RawGaps ==
    [first_next |-> TRUE,
     cards |-> <<
        [Card(0, "NoName", << Dev(0, 1, {}) >>) EXCEPT !.name_ok = FALSE],
        [Card(1, "NoCtl", << Dev(0, 1, {}) >>) EXCEPT !.ctl_ok = FALSE],
        [Card(2, "NoDev", << Dev(0, 1, {}) >>) EXCEPT !.first_dev_ok = FALSE],
        Card(3, "A card with a long name, longer than the name buffer",
             << DevNoOut(0), Dev(1, 3, {1}) >>),
        [Card(4, "Last", << Dev(0, 2, {}) >>) EXCEPT !.next_ok = FALSE],
        Card(5, "Unseen", << Dev(0, 1, {}) >>) >>]
RawBig ==
    [first_next |-> TRUE,
     cards |-> << Card(0, "Big0", << Dev(0, BigSubs, {}), Dev(1, BigSubs, {}), Dev(2, BigSubs, {}) >>),
                  Card(1, "Big1", << Dev(0, BigSubs, {}), Dev(1, BigSubs, {}), Dev(2, BigSubs, {}) >>) >>]

\* one device unit with more sub-devices than MAX_RAWMIDI_SUBDEVICES, and a
\* second unit after it
RawWide ==
    [first_next |-> TRUE,
     cards |-> << Card(0, "Wide", << Dev(0, BigSubs, {}), Dev(1, 2, {}) >>) >>]
\* two-digit card, device and sub-device numbers, and a card name of the 31
\* characters a card name may have
RawLong ==
    [first_next |-> TRUE,
     cards |-> << Card(2, "Two", << Dev(0, 1, {}), Dev(3, 2, {}) >>),
                  Card(10, "Sound card with a 31-char name.",
                       << Dev(10, 11, {}) >>) >>]

SeqFail == [open_ok |-> FALSE, clients |-> <<>>]
SeqOne == [open_ok |-> TRUE,
           clients |-> << Client(128, "TiMidity", << OutPort(0) >>) >>]
SeqMixed ==
    [open_ok |-> TRUE,
     clients |-> <<
        Client(0, "System", << Port(0, {}, {"WRITE", "READ"}), OutPort(1) >>),
        Client(128, "TiMidity",
               << Port(0, {"MIDI_GENERIC"}, {"WRITE"}),
                  Port(1, {"MIDI_GENERIC"}, {"SUBS_WRITE", "READ"}),
                  Port(2, {"APPLICATION"}, {"WRITE", "SUBS_WRITE"}),
                  Port(3, {"MIDI_GENERIC", "SYNTH"}, {"WRITE", "SUBS_WRITE", "READ"}) >>),
        Client(129, "Other", << OutPort(0) >>) >>]
SeqBig ==
    [open_ok |-> TRUE,
     clients |-> << Client(128, "Big128", [p \in 1..BigPorts |-> OutPort(p - 1)]),
                    Client(129, "Big129", [p \in 1..BigPorts |-> OutPort(p - 1)]) >>]

SeqLong ==
    [open_ok |-> TRUE,
     clients |-> <<
        Client(14, "Midi Through", << OutPort(0) >>),
        Client(130, "A software synthesizer with quite a long client name",
               << OutPort(0), Port(1, {"MIDI_GENERIC"}, {"READ", "SUBS_READ"}),
                  OutPort(12) >>) >>]

Host(r, s) == [raw |-> r, seq |-> s]

Hosts == { Host(RawFail, SeqMixed), Host(RawSmall, SeqFail), Host(RawSmall, SeqOne),
           Host(RawGaps, SeqMixed), Host(RawBig, SeqBig), Host(RawNone, SeqFail) }

\* the hosts of the specification that only discovers
QueryHosts ==
    { Host(RawLong, SeqLong), Host(RawWide, SeqOne), Host(RawSmall, SeqMixed),
      Host(RawGaps, SeqLong), Host(RawNone, SeqBig), Host(RawFail, SeqOne),
      Host(RawSmall, SeqOne), Host(RawWide, SeqMixed), Host(RawLong, SeqFail),
      Host(RawNone, SeqFail) }

-----------------------------------------------------------------------------
(* RawPort enumeration *)

RawAddr(c, d, s) == [card |-> c, device |-> d, sub |-> s]

\* the for loop of rawmidi_get_subdevices, from sub-device `sub` on
RECURSIVE rawmidi_sub_loop(_, _, _, _, _, _)
rawmidi_sub_loop(dev, card, sub_nr, sub, list, maxlen) ==
    IF sub < sub_nr /\ Len(list) < maxlen
    THEN rawmidi_sub_loop(dev, card, sub_nr, sub + 1,
            IF sub \notin dev.sub_fail
            THEN Append(list, RawAddr(card, dev.device, sub))
            ELSE list,
            maxlen)
    ELSE list

\* rawmidi_get_subdevices: the unchecked first info query leaves the zeroed
\* info (card 0, no sub-devices) when it fails
rawmidi_get_subdevices(card, dev, maxlen) ==
    rawmidi_sub_loop(dev,
                     IF dev.info_ok THEN card.card ELSE 0,
                     IF dev.info_ok THEN dev.sub_nr ELSE 0,
                     0, <<>>, maxlen)

rawmidi_name(address, shortname) ==
    snprintf(MAX_DEVICE_NAME_LEN,
             "rawmidi(" \o ToString(address.card) \o ":" \o ToString(address.device)
             \o ":" \o ToString(address.sub) \o "): " \o shortname)

rawmidi_output(address, shortname) ==
    [kind |-> "rawmidi", address |-> address, name |-> rawmidi_name(address, shortname)]

\* the inner for loop of midi_query_rawmidi: copies subdevices[sub_i..] into the list
RECURSIVE rawmidi_copy_loop(_, _, _, _, _)
rawmidi_copy_loop(subdevices, sub_i, shortname, list, maxlen) ==
    IF sub_i < Len(subdevices) /\ Len(list) < maxlen
    THEN rawmidi_copy_loop(subdevices, sub_i + 1, shortname,
            Append(list, rawmidi_output(subdevices[sub_i + 1], shortname)), maxlen)
    ELSE list

\* snd_ctl_rawmidi_next_device, call number k + 1 on this card: the device it
\* leaves in `device`, -1 at the end of the walk and when the first call fails
rawmidi_next_device(card, k) ==
    IF (k > 0 \/ card.first_dev_ok) /\ k < Len(card.devices)
    THEN card.devices[k + 1].device
    ELSE -1

\* the body of the do-while loop over the device units of one card
rawmidi_device_body(card, k, list, maxlen) ==
    IF rawmidi_next_device(card, k) # -1
    THEN rawmidi_copy_loop(
            rawmidi_get_subdevices(card, card.devices[k + 1], MAX_RAWMIDI_SUBDEVICES),
            0, card.shortname, list, maxlen)
    ELSE list

\* the do-while loop; k counts the snd_ctl_rawmidi_next_device calls made so far
RECURSIVE rawmidi_device_loop(_, _, _, _)
\* the loop test with device > 0 for device >= 0
rawmidi_device_while_positive(card, k, list1, maxlen) ==
    IF rawmidi_next_device(card, k) > 0 /\ Len(list1) < maxlen
    THEN rawmidi_device_loop(card, k + 1, list1, maxlen)
    ELSE list1
rawmidi_device_while(card, k, list1, maxlen) ==
    IF rawmidi_next_device(card, k) >= 0 /\ Len(list1) < maxlen
    THEN rawmidi_device_loop(card, k + 1, list1, maxlen)
    ELSE list1
rawmidi_device_loop(card, k, list, maxlen) ==
    rawmidi_device_while(card, k, rawmidi_device_body(card, k, list, maxlen), maxlen)

ctl_card_name(card) == "hw:" \o ToString(card)

\* the body of the while loop over the cards, for one card
rawmidi_card_body(card, list, maxlen) ==
    IF card.name_ok /\ Len(ctl_card_name(card.card)) < MAX_CTL_NAME_LEN /\ card.ctl_ok
    THEN rawmidi_device_loop(card, 0, list, maxlen)
    ELSE list

\* the while loop over the cards, from card number i of the host's walk
RECURSIVE rawmidi_card_loop(_, _, _, _)
rawmidi_card_break(raw, i, list1, maxlen) ==
    IF Len(list1) >= maxlen \/ ~raw.cards[i].next_ok
    THEN list1
    ELSE rawmidi_card_loop(raw, i + 1, list1, maxlen)
rawmidi_card_loop(raw, i, list, maxlen) ==
    IF i > Len(raw.cards)
    THEN list
    ELSE rawmidi_card_break(raw, i, rawmidi_card_body(raw.cards[i], list, maxlen), maxlen)

\* a backend's result: the count it returns and the entries it wrote to list[0..]
Counted(list) == [ret |-> Len(list), list |-> list]
Failed == [ret |-> -1, list |-> <<>>]

\* midi_query_rawmidi
midi_query_rawmidi(raw, maxlen) ==
    IF ~raw.first_next
    THEN Failed
    ELSE Counted(rawmidi_card_loop(raw, 1, <<>>, maxlen))

-----------------------------------------------------------------------------
(* SequencerPort enumeration *)

SeqAddr(c, p) == [client |-> c, port |-> p]

alsa_seq_name(client, port, queried_name) ==
    snprintf(MAX_DEVICE_NAME_LEN,
             "alsa_seq(" \o ToString(client) \o ":" \o ToString(port) \o "): " \o queried_name)

\* .client and .port of the stored address are unsigned chars
alsa_seq_output(client, port, queried_name) ==
    [kind |-> "alsa_seq", address |-> SeqAddr(client % UCHAR_MOD, port % UCHAR_MOD),
     name |-> alsa_seq_name(client, port, queried_name)]

\* the filter with the test (caps & caps_mask) != 0: either capability bit
alsa_seq_port_ok_either_cap(port_info) ==
    /\ "MIDI_GENERIC" \in port_info.type
    /\ (port_info.caps \cap {"WRITE", "SUBS_WRITE"}) # {}

\* the filter on one port: generic MIDI type, and both capability bits
alsa_seq_port_ok(port_info) ==
    /\ "MIDI_GENERIC" \in port_info.type
    /\ (port_info.caps \cap {"WRITE", "SUBS_WRITE"}) = {"WRITE", "SUBS_WRITE"}

\* the inner while loop with the test count <= maxlen for count < maxlen
RECURSIVE alsa_seq_port_loop_one_more(_, _, _, _)
alsa_seq_port_loop_one_more(client_info, j, list, maxlen) ==
    IF j <= Len(client_info.ports) /\ Len(list) <= maxlen
    THEN alsa_seq_port_loop_one_more(client_info, j + 1,
            IF alsa_seq_port_ok(client_info.ports[j])
            THEN Append(list, alsa_seq_output(client_info.client, client_info.ports[j].port,
                                              client_info.name))
            ELSE list,
            maxlen)
    ELSE list

\* the inner while loop over the ports of one client
RECURSIVE alsa_seq_port_loop(_, _, _, _)
alsa_seq_port_loop(client_info, j, list, maxlen) ==
    IF j <= Len(client_info.ports) /\ Len(list) < maxlen
    THEN alsa_seq_port_loop(client_info, j + 1,
            IF alsa_seq_port_ok(client_info.ports[j])
            THEN Append(list, alsa_seq_output(client_info.client, client_info.ports[j].port,
                                              client_info.name))
            ELSE list,
            maxlen)
    ELSE list

\* the outer while loop over the clients
RECURSIVE alsa_seq_client_loop(_, _, _, _)
alsa_seq_client_loop(seq, i, list, maxlen) ==
    IF i <= Len(seq.clients) /\ Len(list) < maxlen
    THEN alsa_seq_client_loop(seq, i + 1,
            alsa_seq_port_loop(seq.clients[i], 1, list, maxlen), maxlen)
    ELSE list

\* midi_query_alsa_seq
midi_query_alsa_seq(seq, maxlen) ==
    IF ~seq.open_ok
    THEN Failed
    ELSE Counted(alsa_seq_client_loop(seq, 1, <<>>, maxlen))

-----------------------------------------------------------------------------
(* Discovery *)

\* list written into the array from entry `start` on; entry i is outputs[i + 1]
Store(outputs, start, list) ==
    [i \in 1..Max(Len(outputs), start + Len(list)) |->
        IF i > start /\ i <= start + Len(list) THEN list[i - start] ELSE outputs[i]]

NoHost == [raw |-> RawNone, seq |-> SeqFail, none |-> TRUE]

\* what a midi_query call leaves: its return value, the statics, and whether
\* it queried the backends (host |-> the host it queried) or returned early
QueryResult(ret, is_initialized, output_count, outputs, enumerated, h, rawmidi_count, alsa_seq_count) ==
    [ret |-> ret, initialized |-> is_initialized, midi_output_count |-> output_count,
     midi_outputs |-> outputs, enumerated |-> enumerated, host |-> h,
     rawmidi_count |-> rawmidi_count, alsa_seq_count |-> alsa_seq_count]

\* midi_output_count after the RawPort query: reset to 0, then raised by a
\* positive rawmidi_count
midi_query_count(rawmidi_count) == IF rawmidi_count > 0 THEN 0 + rawmidi_count ELSE 0

\* midi_query_merge with the Sequencer entries written from midi_outputs[0] on
\* instead of from &midi_outputs[midi_output_count]
midi_query_merge_at_zero(outputs1, count1, rawmidi_count, alsa_seq, h) ==
    IF alsa_seq.ret < 0
    THEN QueryResult(FALSE, FALSE, count1, Store(outputs1, 0, alsa_seq.list),
                     TRUE, h, rawmidi_count, alsa_seq.ret)
    ELSE QueryResult(TRUE, TRUE, count1 + alsa_seq.ret, Store(outputs1, 0, alsa_seq.list),
                     TRUE, h, rawmidi_count, alsa_seq.ret)

\* midi_query from the Sequencer query on; outputs1 and count1 are the array
\* and midi_output_count after the RawPort query
midi_query_merge(outputs1, count1, rawmidi_count, alsa_seq, h) ==
    IF alsa_seq.ret < 0
    THEN QueryResult(FALSE, FALSE, count1, Store(outputs1, count1, alsa_seq.list),
                     TRUE, h, rawmidi_count, alsa_seq.ret)
    ELSE QueryResult(TRUE, TRUE, count1 + alsa_seq.ret, Store(outputs1, count1, alsa_seq.list),
                     TRUE, h, rawmidi_count, alsa_seq.ret)

midi_query_seq(outputs, rawmidi, h) ==
    midi_query_merge(Store(outputs, 0, rawmidi.list), midi_query_count(rawmidi.ret),
                     rawmidi.ret, midi_query_alsa_seq(h.seq, MAX_MIDI_DEVICES), h)

\* midi_query with the test of `initialized` left out: every call enumerates
midi_query_requery(is_initialized, output_count, outputs, h) ==
    midi_query_seq(outputs, midi_query_rawmidi(h.raw, MAX_MIDI_DEVICES), h)

\* midi_query with the early return giving back the count but not the flag:
\* a call made after a successful discovery reports failure
midi_query_forgets(is_initialized, output_count, outputs, h) ==
    IF is_initialized
    THEN QueryResult(FALSE, is_initialized, output_count, outputs, FALSE, NoHost, 0, 0)
    ELSE midi_query_seq(outputs, midi_query_rawmidi(h.raw, MAX_MIDI_DEVICES), h)

\* midi_query against host h
midi_query(is_initialized, output_count, outputs, h) ==
    IF is_initialized
    THEN QueryResult(TRUE, is_initialized, output_count, outputs, FALSE, NoHost, 0, 0)
    ELSE midi_query_seq(outputs, midi_query_rawmidi(h.raw, MAX_MIDI_DEVICES), h)

-----------------------------------------------------------------------------
(* Discovery, one backend call at a time *)

(***************************************************************************)
(* The loops of midi_query_rawmidi and midi_query_alsa_seq as the code     *)
(* walks them, one ALSA call per step.  The host answers every call as it  *)
(* likes: with an error, with the next card, device unit, client or port   *)
(* (at most ScanCards, ScanDevs, ScanClients, ScanPorts of them), or with  *)
(* the end of the walk.  The entries written are those of midi_query       *)
(* above; the walk keeps the locals that decide where it goes: card,       *)
(* device, status, client, port and count.                                 *)
(***************************************************************************)

ScanIdle ==
    [pc |-> "idle", card |-> -1, device |-> -1, status |-> 0, client |-> -1, port |-> -1,
     count |-> 0, rawmidi_count |-> 0, alsa_seq_count |-> 0, ret |-> FALSE]

\* what the host may answer to a call that walks a list
Answers == {"error", "next", "end"}

\* sub-devices one device unit adds to the list: none, one, or as many as
\* the subdevices array holds
SubCounts == {0, 1, MAX_RAWMIDI_SUBDEVICES}

\* the step leaves `next` in scan and touches nothing else
Scanned(next) ==
    /\ scan' = next
    /\ UNCHANGED <<initialized, midi_output_count, midi_outputs, current_output,
                   sequencer_env, rawmidi_env, live, first_query, discovered_from, last>>

\* midi_query_rawmidi returns ret; midi_query goes on to midi_query_alsa_seq
rawmidi_returns(ret) ==
    Scanned([scan EXCEPT !.pc = "open_seq", !.rawmidi_count = ret])

\* midi_query_alsa_seq returns ret, and midi_query returns
alsa_seq_returns(ret) ==
    Scanned([scan EXCEPT !.pc = "done", !.alsa_seq_count = ret, !.ret = (ret >= 0)])

\* midi_query is entered with initialized false
scan_midi_query ==
    /\ scan.pc = "idle"
    /\ ~initialized
    /\ Scanned([scan EXCEPT !.pc = "snd_card_next_first", !.count = 0, !.card = -1])

\* the first snd_card_next, and the test card < 0
scan_card_first ==
    /\ scan.pc = "snd_card_next_first"
    /\ \E answer \in Answers :
          IF answer = "error" THEN rawmidi_returns(-1)
          ELSE IF answer = "end" THEN rawmidi_returns(0)
          ELSE Scanned([scan EXCEPT !.pc = "snd_card_get_name", !.card = 0])

\* snd_card_get_name
scan_card_get_name ==
    /\ scan.pc = "snd_card_get_name"
    /\ \E ok \in BOOLEAN :
          Scanned([scan EXCEPT !.pc = IF ok THEN "snd_ctl_open" ELSE "snd_card_next"])

\* snd_ctl_open, and int device = -1
scan_ctl_open ==
    /\ scan.pc = "snd_ctl_open"
    /\ \E ok \in BOOLEAN :
          Scanned(IF ok
                  THEN [scan EXCEPT !.pc = "snd_ctl_rawmidi_next_device", !.device = -1]
                  ELSE [scan EXCEPT !.pc = "snd_card_next"])

\* status = snd_ctl_rawmidi_next_device(ctl, &device), and the test
\* status >= 0 && device != -1; a failed call leaves device as it was
scan_next_device ==
    /\ scan.pc = "snd_ctl_rawmidi_next_device"
    /\ \E answer \in Answers :
          IF answer = "error"
          THEN Scanned([scan EXCEPT !.pc = "device_while", !.status = -1])
          ELSE IF answer = "next" /\ scan.device + 1 < ScanDevs
          THEN Scanned([scan EXCEPT !.pc = "rawmidi_get_subdevices", !.status = 0,
                                    !.device = scan.device + 1])
          ELSE Scanned([scan EXCEPT !.pc = "device_while", !.status = 0, !.device = -1])

\* rawmidi_get_subdevices and the for loop that copies what it found
scan_get_subdevices ==
    /\ scan.pc = "rawmidi_get_subdevices"
    /\ \E sub_count \in SubCounts :
          Scanned([scan EXCEPT !.pc = "device_while",
                               !.count = Min(scan.count + sub_count, MAX_MIDI_DEVICES)])

\* while (device >= 0 && count < maxlen)
scan_device_while ==
    /\ scan.pc = "device_while"
    /\ Scanned([scan EXCEPT !.pc = IF scan.device >= 0 /\ scan.count < MAX_MIDI_DEVICES
                                   THEN "snd_ctl_rawmidi_next_device"
                                   ELSE "snd_card_next"])

\* if (count >= maxlen || snd_card_next(&card) < 0) break, and while (card >= 0)
scan_card_next ==
    /\ scan.pc = "snd_card_next"
    /\ IF scan.count >= MAX_MIDI_DEVICES
       THEN rawmidi_returns(scan.count)
       ELSE \E answer \in Answers :
               IF answer = "next" /\ scan.card + 1 < ScanCards
               THEN Scanned([scan EXCEPT !.pc = "snd_card_get_name", !.card = scan.card + 1])
               ELSE rawmidi_returns(scan.count)

\* open_seq in midi_query_alsa_seq
scan_open_seq ==
    /\ scan.pc = "open_seq"
    /\ \E ok \in BOOLEAN :
          IF ok
          THEN Scanned([scan EXCEPT !.pc = "snd_seq_query_next_client", !.count = 0,
                                    !.client = -1])
          ELSE alsa_seq_returns(-1)

\* while (snd_seq_query_next_client(seq, client_info) >= 0 && count < maxlen)
scan_next_client ==
    /\ scan.pc = "snd_seq_query_next_client"
    /\ \E answer \in Answers :
          IF answer = "next" /\ scan.client + 1 < ScanClients /\ scan.count < MAX_MIDI_DEVICES
          THEN Scanned([scan EXCEPT !.pc = "snd_seq_query_next_port",
                                    !.client = scan.client + 1, !.port = -1])
          ELSE alsa_seq_returns(scan.count)

\* while (snd_seq_query_next_port(seq, port_info) >= 0 && count < maxlen), and
\* the body that lists the port when it passes the filter
scan_next_port ==
    /\ scan.pc = "snd_seq_query_next_port"
    /\ \E answer \in Answers : \E listed \in {0, 1} :
          IF answer = "next" /\ scan.port + 1 < ScanPorts /\ scan.count < MAX_MIDI_DEVICES
          THEN Scanned([scan EXCEPT !.port = scan.port + 1, !.count = scan.count + listed])
          ELSE Scanned([scan EXCEPT !.pc = "snd_seq_query_next_client"])

NextScan ==
    \/ scan_midi_query
    \/ scan_card_first
    \/ scan_card_get_name
    \/ scan_ctl_open
    \/ scan_next_device
    \/ scan_get_subdevices
    \/ scan_device_while
    \/ scan_card_next
    \/ scan_open_seq
    \/ scan_next_client
    \/ scan_next_port

-----------------------------------------------------------------------------
(* The event codec of the ALSA library: snd_midi_event_encode_byte *)

MIDI_BUFFER_SIZE == 256
ST_INVALID == 7
ST_SPECIAL == 8
ST_SYSEX == ST_SPECIAL
MIDI_CMD_COMMON_SYSEX_END == 247
MIDI_CMD_COMMON_CLOCK == 248

Ev(e, q) == [event |-> e, qlen |-> q]

\* status_event[type + 1]: the event and the number of data bytes of each status
status_event ==
    << Ev("NOTEOFF", 2), Ev("NOTEON", 2), Ev("KEYPRESS", 2), Ev("CONTROLLER", 2),
       Ev("PGMCHANGE", 1), Ev("CHANPRESS", 1), Ev("PITCHBEND", 2), Ev("NONE", -1),
       Ev("SYSEX", 1), Ev("QFRAME", 1), Ev("SONGPOS", 2), Ev("SONGSEL", 1),
       Ev("NONE", -1), Ev("NONE", -1), Ev("TUNE_REQUEST", 0), Ev("NONE", -1),
       Ev("CLOCK", 0), Ev("NONE", -1), Ev("START", 0), Ev("CONTINUE", 0),
       Ev("STOP", 0), Ev("NONE", -1), Ev("SENSING", 0), Ev("RESET", 0) >>

NoCodec == [present |-> FALSE, type |-> ST_INVALID, read |-> 0, qlen |-> 0]
\* snd_midi_event_new followed by snd_midi_event_init
NewCodec == [present |-> TRUE, type |-> ST_INVALID, read |-> 0, qlen |-> 0]

\* what one encode call leaves: the codec, the result, and the event type
\* when the result is 1
Encoded(dev, result, type) == [dev |-> dev, result |-> result, type |-> type]

\* the status type of a status byte c
status_type(c) == IF (c \div 16) = 15 THEN (c % 16) + ST_SPECIAL ELSE (c \div 16) % 8

\* a real-time byte: an event of its own, the codec untouched
encode_realtime(dev, c) ==
    Encoded(dev,
            IF status_event[ST_SPECIAL + c - 240 + 1].event # "NONE" THEN 1 ELSE 0,
            status_event[ST_SPECIAL + c - 240 + 1].event)

\* the byte taken into the codec: a new command, the rest of a command, or
\* running status
encode_take(dev, c) ==
    IF c >= 128 /\ (c # MIDI_CMD_COMMON_SYSEX_END \/ dev.type # ST_SYSEX)
    THEN [dev EXCEPT !.type = status_type(c), !.read = 1,
                     !.qlen = status_event[status_type(c) + 1].qlen]
    ELSE IF dev.qlen > 0
    THEN [dev EXCEPT !.read = dev.read + 1,
                     !.qlen = IF dev.type # ST_SYSEX THEN dev.qlen - 1 ELSE dev.qlen]
    ELSE [dev EXCEPT !.qlen = status_event[dev.type + 1].qlen - 1, !.read = 2]

\* the event, if the byte completed one; dev1 is the codec after encode_take
encode_event(dev1, c) ==
    IF dev1.qlen = 0
    THEN Encoded(IF dev1.type >= ST_SPECIAL THEN [dev1 EXCEPT !.type = ST_INVALID] ELSE dev1,
                 1, status_event[dev1.type + 1].event)
    ELSE IF dev1.type = ST_SYSEX
            /\ (c = MIDI_CMD_COMMON_SYSEX_END \/ dev1.read >= MIDI_BUFFER_SIZE)
    THEN Encoded(IF c # MIDI_CMD_COMMON_SYSEX_END
                 THEN [dev1 EXCEPT !.read = 0]
                 ELSE [dev1 EXCEPT !.read = 0, !.qlen = 0, !.type = ST_INVALID],
                 1, "SYSEX")
    ELSE Encoded(dev1, 0, "NONE")

snd_midi_event_encode_byte(dev, c) ==
    IF c >= MIDI_CMD_COMMON_CLOCK
    THEN encode_realtime(dev, c)
    ELSE encode_event(encode_take(dev, c), c)

-----------------------------------------------------------------------------
(* Sequencer backend *)

Call(fn, arg, ret) == [fn |-> fn, arg |-> arg, ret |-> ret]

\* env->seq == NULL
NoSeq == 0

NoLive == [clients |-> 0, ports |-> 0, codecs |-> 0, rawmidi |-> 0]

\* What the host answers to one midi_open_alsa_seq:
\*  open_ok : snd_seq_open succeeds, and allocates client number `client`
\*  port    : what snd_seq_create_simple_port returns, a port number or -ENOMEM
\*  connect_ok, codec_ok : snd_seq_connect_to and snd_midi_event_new succeed
SeqResp(o, c, p, k, m) ==
    [open_ok |-> o, client |-> c, port |-> p, connect_ok |-> k, codec_ok |-> m]

OwnClients == {129}
PortResults == {0, -12}

SeqResps ==
    { SeqResp(FALSE, NoSeq, 0, TRUE, TRUE) }
    \cup { SeqResp(TRUE, c, p, k, m) :
             c \in OwnClients, p \in PortResults, k \in BOOLEAN, m \in BOOLEAN }

\* what a backend operation leaves: its environment, the ALSA calls it made in
\* order, and the host resources held
Done(env, calls, lv) == [env |-> env, calls |-> calls, live |-> lv]

Broadcast == SeqAddr(SND_SEQ_ADDRESS_SUBSCRIBERS, SND_SEQ_ADDRESS_UNKNOWN)

\* env->dest: the stored address, or the broadcast address for client 0 and
\* for an address equal to env->src
alsa_seq_dest(stored, src) ==
    IF stored.client = 0 \/ (stored.client = src.client /\ stored.port = src.port)
    THEN Broadcast
    ELSE stored

\* the calls of midi_open_alsa_seq up to the port creation
alsa_seq_port_calls(resp) ==
    << Call("snd_seq_open", <<>>, resp.client),
       Call("snd_seq_create_simple_port", <<resp.client>>, resp.port) >>

\* and up to the connect, which is made for a destination other than broadcast
alsa_seq_connect_calls(env, resp) ==
    IF env.dest.client # SND_SEQ_ADDRESS_SUBSCRIBERS
    THEN Append(alsa_seq_port_calls(resp),
                Call("snd_seq_connect_to",
                     <<env.seq, env.src.port, env.dest.client, env.dest.port>>,
                     IF resp.connect_ok THEN 0 ELSE -1))
    ELSE alsa_seq_port_calls(resp)

\* midi_open_alsa_seq from snd_midi_event_new on, were a failed connect to
\* release the client and end the open
alsa_seq_new_codec_connect_fatal(env, lv, resp) ==
    IF env.dest.client # SND_SEQ_ADDRESS_SUBSCRIBERS /\ ~resp.connect_ok
    THEN Done([env EXCEPT !.seq = NoSeq],
              Append(alsa_seq_connect_calls(env, resp), Call("snd_seq_close", <<env.seq>>, 0)),
              lv)
    ELSE IF ~resp.codec_ok
    THEN Done([env EXCEPT !.seq = NoSeq],
              alsa_seq_connect_calls(env, resp)
                \o << Call("snd_midi_event_new", <<>>, -1),
                      Call("snd_seq_close", <<env.seq>>, 0) >>,
              lv)
    ELSE Done([env EXCEPT !.midi_codec = NewCodec],
              Append(alsa_seq_connect_calls(env, resp), Call("snd_midi_event_new", <<>>, 0)),
              [lv EXCEPT !.clients = lv.clients + 1,
                         !.ports = lv.ports + (IF resp.port >= 0 THEN 1 ELSE 0),
                         !.codecs = lv.codecs + 1])

\* midi_open_alsa_seq from snd_midi_event_new on, were a failed codec
\* allocation to return without releasing the client
alsa_seq_new_codec_keeps_client(env, lv, resp) ==
    IF ~resp.codec_ok
    THEN Done(env,
              Append(alsa_seq_connect_calls(env, resp), Call("snd_midi_event_new", <<>>, -1)),
              [lv EXCEPT !.clients = lv.clients + 1,
                         !.ports = lv.ports + (IF resp.port >= 0 THEN 1 ELSE 0)])
    ELSE Done([env EXCEPT !.midi_codec = NewCodec],
              Append(alsa_seq_connect_calls(env, resp), Call("snd_midi_event_new", <<>>, 0)),
              [lv EXCEPT !.clients = lv.clients + 1,
                         !.ports = lv.ports + (IF resp.port >= 0 THEN 1 ELSE 0),
                         !.codecs = lv.codecs + 1])

\* midi_open_alsa_seq from snd_midi_event_new on; env holds the client, the
\* port and the destination
alsa_seq_new_codec(env, lv, resp) ==
    IF ~resp.codec_ok
    THEN Done([env EXCEPT !.seq = NoSeq],
              alsa_seq_connect_calls(env, resp)
                \o << Call("snd_midi_event_new", <<>>, -1),
                      Call("snd_seq_close", <<env.seq>>, 0) >>,
              lv)
    ELSE Done([env EXCEPT !.midi_codec = NewCodec],
              Append(alsa_seq_connect_calls(env, resp), Call("snd_midi_event_new", <<>>, 0)),
              [lv EXCEPT !.clients = lv.clients + 1,
                         !.ports = lv.ports + (IF resp.port >= 0 THEN 1 ELSE 0),
                         !.codecs = lv.codecs + 1])

\* midi_open_alsa_seq from the test of env->src.port on; env holds the client
\* and the port
alsa_seq_port_created(env, output, lv, resp) ==
    IF env.src.port < 0
    THEN Done([env EXCEPT !.seq = NoSeq],
              Append(alsa_seq_port_calls(resp), Call("snd_seq_close", <<env.seq>>, 0)),
              lv)
    ELSE alsa_seq_new_codec([env EXCEPT !.dest = alsa_seq_dest(output.address, env.src)],
                            lv, resp)

\* midi_open_alsa_seq without the test env->seq != NULL
midi_open_alsa_seq_reopens(env, output, lv, resp) ==
    IF ~resp.open_ok
    THEN Done([env EXCEPT !.seq = NoSeq], << Call("snd_seq_open", <<>>, -1) >>, lv)
    ELSE alsa_seq_port_created(
            [env EXCEPT !.seq = resp.client, !.src.port = resp.port % UCHAR_MOD],
            output, lv, resp)

\* midi_open_alsa_seq(output); env->src.port is an unsigned char
midi_open_alsa_seq(env, output, lv, resp) ==
    IF env.seq # NoSeq
    THEN Done(env, <<>>, lv)
    ELSE IF ~resp.open_ok
    THEN Done(env, << Call("snd_seq_open", <<>>, -1) >>, lv)
    ELSE alsa_seq_port_created(
            [env EXCEPT !.seq = resp.client, !.src.port = resp.port % UCHAR_MOD],
            output, lv, resp)

\* midi_close_alsa_seq, were it to release the client without draining first
midi_close_alsa_seq_no_drain(env, lv) ==
    IF env.seq # NoSeq
    THEN IF env.midi_codec.present
         THEN Done([env EXCEPT !.seq = NoSeq, !.midi_codec = NoCodec],
                   << Call("snd_seq_close", <<env.seq>>, 0),
                      Call("snd_midi_event_free", <<>>, 0) >>,
                   [lv EXCEPT !.clients = lv.clients - 1, !.ports = 0,
                              !.codecs = lv.codecs - 1])
         ELSE Done([env EXCEPT !.seq = NoSeq],
                   << Call("snd_seq_close", <<env.seq>>, 0) >>,
                   [lv EXCEPT !.clients = lv.clients - 1, !.ports = 0])
    ELSE Done(env, <<>>, lv)

\* midi_close_alsa_seq
midi_close_alsa_seq(env, lv) ==
    IF env.seq # NoSeq
    THEN IF env.midi_codec.present
         THEN Done([env EXCEPT !.seq = NoSeq, !.midi_codec = NoCodec],
                   << Call("snd_seq_drain_output", <<env.seq>>, 0),
                      Call("snd_seq_close", <<env.seq>>, 0),
                      Call("snd_midi_event_free", <<>>, 0) >>,
                   [lv EXCEPT !.clients = lv.clients - 1, !.ports = 0,
                              !.codecs = lv.codecs - 1])
         ELSE Done([env EXCEPT !.seq = NoSeq],
                   << Call("snd_seq_drain_output", <<env.seq>>, 0),
                      Call("snd_seq_close", <<env.seq>>, 0) >>,
                   [lv EXCEPT !.clients = lv.clients - 1, !.ports = 0])
    ELSE Done(env, <<>>, lv)

\* what a write leaves: the environment, the ALSA calls, whether it faulted, and
\* the result of the encode call (-1 when the write made none)
Written(env, calls, fault, result) ==
    [env |-> env, calls |-> calls, fault |-> fault, result |-> result]

\* the switch on ev.type without its two cases
flush_always(type) == TRUE

\* the switch on ev.type in midi_write_alsa_seq
flush_of(type) == type \notin {"PGMCHANGE", "CHANPRESS"}

\* the event handed to snd_seq_event_output: direct, from env->src.port, to
\* the subscribers
alsa_seq_event(env, type) ==
    Call("snd_seq_event_output",
         <<env.seq, type, "direct", env.src.port, SND_SEQ_ADDRESS_SUBSCRIBERS>>, 0)

\* midi_write_alsa_seq after the encode call
alsa_seq_encoded(env, enc) ==
    IF enc.result = 1
    THEN Written([env EXCEPT !.midi_codec = enc.dev],
                 IF flush_of(enc.type)
                 THEN << alsa_seq_event(env, enc.type),
                         Call("snd_seq_drain_output", <<env.seq>>, 0) >>
                 ELSE << alsa_seq_event(env, enc.type) >>,
                 FALSE, enc.result)
    ELSE Written([env EXCEPT !.midi_codec = enc.dev], <<>>, FALSE, enc.result)

\* midi_write_alsa_seq(val); feeding a byte to an absent codec is a fault
midi_write_alsa_seq(env, val) ==
    IF env.seq = NoSeq
    THEN Written(env, <<>>, FALSE, -1)
    ELSE IF ~env.midi_codec.present
    THEN Written(env, <<>>, TRUE, -1)
    ELSE alsa_seq_encoded(env, snd_midi_event_encode_byte(env.midi_codec, val))

-----------------------------------------------------------------------------
(* RawPort backend *)

\* rawmidi_env.midiout == NULL
NoPort == "NULL"

ctl_port_name(address) ==
    "hw:" \o ToString(address.card) \o "," \o ToString(address.device)
    \o "," \o ToString(address.sub)

\* What the host answers to one snd_rawmidi_open: whether it succeeds, and when
\* it fails whether the library had already cleared the caller's handle
RawResp(o, c) == [open_ok |-> o, clears |-> c]
RawResps == { RawResp(TRUE, FALSE), RawResp(FALSE, FALSE), RawResp(FALSE, TRUE) }

\* midi_open_rawmidi(output)
midi_open_rawmidi(env, output, lv, resp) ==
    IF Len(ctl_port_name(output.address)) >= MAX_CTL_NAME_LEN
    THEN Done(env, <<>>, lv)
    ELSE IF ~resp.open_ok
    THEN Done(IF resp.clears THEN [env EXCEPT !.midiout = NoPort] ELSE env,
              << Call("snd_rawmidi_open", <<ctl_port_name(output.address)>>, -1) >>, lv)
    ELSE Done([env EXCEPT !.midiout = ctl_port_name(output.address)],
              << Call("snd_rawmidi_open", <<ctl_port_name(output.address)>>, 0) >>,
              [lv EXCEPT !.rawmidi = lv.rawmidi + 1])

\* midi_close_rawmidi
midi_close_rawmidi(env, lv) ==
    IF env.midiout # NoPort
    THEN Done([env EXCEPT !.midiout = NoPort],
              << Call("snd_rawmidi_drain", <<env.midiout>>, 0),
                 Call("snd_rawmidi_close", <<env.midiout>>, 0) >>,
              [lv EXCEPT !.rawmidi = lv.rawmidi - 1])
    ELSE Done(env, <<>>, lv)

\* midi_write_rawmidi(val): one snd_rawmidi_write of the byte
midi_write_rawmidi(env, val) ==
    IF env.midiout = NoPort
    THEN Written(env, <<>>, FALSE, -1)
    ELSE Written(env, << Call("snd_rawmidi_write", <<env.midiout>>, 1) >>, FALSE, -1)

-----------------------------------------------------------------------------
(* Output controller *)

\* a never-written entry of the static array: all zero, its function pointers NULL
ZeroOutput == [kind |-> "none", address |-> SeqAddr(0, 0), name |-> ""]

\* midi_outputs[i] for the array `outputs`
OutputAt(outputs, i) ==
    IF i >= 0 /\ i < Len(outputs) THEN outputs[i + 1] ELSE ZeroOutput

\* index >= midi_output_count, the int index converted to size_t: a negative
\* index becomes larger than every count
index_missing(index, output_count) == index < 0 \/ index >= output_count

NoResp == [open_ok |-> FALSE]

\* the answers the host may give to the open of `output`
OpenResps(output, lv) ==
    IF output.kind = "rawmidi"
    THEN { r \in RawResps : r.open_ok => lv.rawmidi < MaxRawOpen }
    ELSE IF output.kind = "alsa_seq" THEN SeqResps ELSE {NoResp}

\* what a dispatched device operation leaves: both environments, the ALSA
\* calls, the resources held, whether it faulted, and the encode result of a write
Dispatched(senv, renv, calls, lv, fault, result) ==
    [seq |-> senv, raw |-> renv, calls |-> calls, live |-> lv, fault |-> fault,
     result |-> result]

SeqDone(r, renv) == Dispatched(r.env, renv, r.calls, r.live, FALSE, 0)
RawDone(r, senv) == Dispatched(senv, r.env, r.calls, r.live, FALSE, 0)
SeqWritten(r, renv, lv) == Dispatched(r.env, renv, r.calls, lv, r.fault, r.result)
RawWritten(r, senv, lv) == Dispatched(senv, r.env, r.calls, lv, r.fault, r.result)

\* current_output->open(current_output); calling the NULL pointer of a zero
\* entry is a fault
device_open(output, senv, renv, lv, resp) ==
    IF output.kind = "alsa_seq"
    THEN SeqDone(midi_open_alsa_seq(senv, output, lv, resp), renv)
    ELSE IF output.kind = "rawmidi"
    THEN RawDone(midi_open_rawmidi(renv, output, lv, resp), senv)
    ELSE Dispatched(senv, renv, <<>>, lv, TRUE, -1)

\* current_output->close(current_output)
device_close(output, senv, renv, lv) ==
    IF output.kind = "alsa_seq"
    THEN SeqDone(midi_close_alsa_seq(senv, lv), renv)
    ELSE IF output.kind = "rawmidi"
    THEN RawDone(midi_close_rawmidi(renv, lv), senv)
    ELSE Dispatched(senv, renv, <<>>, lv, TRUE, -1)

\* current_output->write(current_output, val)
device_write(output, senv, renv, lv, val) ==
    IF output.kind = "alsa_seq"
    THEN SeqWritten(midi_write_alsa_seq(senv, val), renv, lv)
    ELSE IF output.kind = "rawmidi"
    THEN RawWritten(midi_write_rawmidi(renv, val), senv, lv)
    ELSE Dispatched(senv, renv, <<>>, lv, TRUE, -1)

\* the part of a midi_query result the ghost `last` keeps
QueryLog(q) ==
    [ret |-> q.ret, enumerated |-> q.enumerated, host |-> q.host,
     rawmidi_count |-> q.rawmidi_count, alsa_seq_count |-> q.alsa_seq_count]
NoQuery ==
    [ret |-> FALSE, enumerated |-> FALSE, host |-> NoHost,
     rawmidi_count |-> 0, alsa_seq_count |-> 0]

\* the last public call: its name, its argument (the index of midi_init and
\* midi_get_dev_name), what it returned (for midi_write the result of the
\* encode call, -1 when it made none), the ALSA calls of the device
\* operation it dispatched, whether it faulted, whether it called midi_query
\* and with what result
Last(op, arg, ret, calls, fault, queried, query) ==
    [op |-> op, arg |-> arg, ret |-> ret, calls |-> calls, fault |-> fault,
     queried |-> queried, query |-> query]

\* the statics midi_query leaves, and the ghosts that follow it
Queried(q) ==
    /\ initialized' = q.initialized
    /\ midi_output_count' = q.midi_output_count
    /\ midi_outputs' = q.midi_outputs
    /\ first_query' = IF first_query # "none" THEN first_query
                      ELSE IF q.ret THEN "ok" ELSE "failed"
    /\ discovered_from' = IF q.enumerated /\ q.ret THEN q.host ELSE discovered_from

\* the configured index config_get_int returns, and the num of midi_get_dev_name
CfgIndexes == {-1, 0, 1, 2, 3, 2 * MAX_MIDI_DEVICES}

\* uint8_t val
Bytes == 0..255
\* one byte of each kind the codec tells apart: data, the channel statuses
\* Note On, Program Change and Channel Pressure, the system statuses SysEx,
\* SysEx end and the undefined 0xF4, the real-time bytes Clock and 0xFD
SomeBytes == {0, 144, 192, 208, 240, 244, 247, 248, 253}
\* the host of the specification that writes every byte
OneHost == { Host(RawSmall, SeqOne) }

-----------------------------------------------------------------------------
(* The public functions *)

Init ==
    /\ initialized = FALSE
    /\ midi_output_count = 0
    /\ midi_outputs = <<>>
    /\ current_output = NULL
    /\ sequencer_env = [seq |-> NoSeq, midi_codec |-> NoCodec,
                        src |-> SeqAddr(0, 0), dest |-> SeqAddr(0, 0)]
    /\ rawmidi_env = [midiout |-> NoPort]
    /\ live = NoLive
    /\ first_query = "none"
    /\ discovered_from = NoHost
    /\ last = Last("start", 0, 0, <<>>, FALSE, FALSE, NoQuery)
    /\ scan = ScanIdle

\* midi_init from current_output = &midi_outputs[index] on; r is what the
\* device's open leaves
midi_init_opened(index, q, r) ==
    /\ current_output' = index
    /\ sequencer_env' = r.seq
    /\ rawmidi_env' = r.raw
    /\ live' = r.live
    /\ last' = Last("midi_init", index, 0, r.calls, r.fault, TRUE, QueryLog(q))

\* midi_init after midi_query returned q
midi_init_queried(index, q) ==
    /\ Queried(q)
    /\ IF q.ret /\ ~index_missing(index, q.midi_output_count)
       THEN \E resp \in OpenResps(OutputAt(q.midi_outputs, index), live) :
                midi_init_opened(index, q,
                    device_open(OutputAt(q.midi_outputs, index),
                                sequencer_env, rawmidi_env, live, resp))
       ELSE /\ UNCHANGED <<current_output, sequencer_env, rawmidi_env, live>>
            /\ last' = Last("midi_init", index, 0, <<>>, FALSE, TRUE, QueryLog(q))

midi_init_on(hosts) ==
    /\ \E index \in CfgIndexes : \E h \in hosts :
          midi_init_queried(index, midi_query(initialized, midi_output_count, midi_outputs, h))
    /\ UNCHANGED scan

\* midi_close from the call of the device's close on
midi_close_closed(r) ==
    /\ sequencer_env' = r.seq
    /\ rawmidi_env' = r.raw
    /\ live' = r.live
    /\ current_output' = NULL
    /\ last' = Last("midi_close", 0, 0, r.calls, r.fault, FALSE, NoQuery)

midi_close ==
    /\ IF current_output = NULL
       THEN /\ last' = Last("midi_close", 0, 0, <<>>, FALSE, FALSE, NoQuery)
            /\ UNCHANGED <<current_output, sequencer_env, rawmidi_env, live>>
       ELSE midi_close_closed(device_close(OutputAt(midi_outputs, current_output),
                                           sequencer_env, rawmidi_env, live))
    /\ UNCHANGED <<initialized, midi_output_count, midi_outputs, first_query, discovered_from,
                   scan>>

\* a run feeds at most MaxSysexData data bytes into one system-exclusive message
SysexRoom(val) ==
    \/ current_output = NULL
    \/ OutputAt(midi_outputs, current_output).kind # "alsa_seq"
    \/ sequencer_env.seq = NoSeq
    \/ ~(sequencer_env.midi_codec.type = ST_SYSEX /\ sequencer_env.midi_codec.qlen > 0
         /\ val < 128 /\ sequencer_env.midi_codec.read > MaxSysexData)

\* midi_write from the call of the device's write on
midi_write_written(r) ==
    /\ sequencer_env' = r.seq
    /\ rawmidi_env' = r.raw
    /\ last' = Last("midi_write", 0, r.result, r.calls, r.fault, FALSE, NoQuery)

midi_write_of(bytes) ==
    \E val \in bytes :
        /\ SysexRoom(val)
        /\ IF current_output = NULL
           THEN /\ last' = Last("midi_write", 0, -1, <<>>, FALSE, FALSE, NoQuery)
                /\ UNCHANGED <<sequencer_env, rawmidi_env>>
           ELSE midi_write_written(device_write(OutputAt(midi_outputs, current_output),
                                                sequencer_env, rawmidi_env, live, val))
        /\ UNCHANGED <<initialized, midi_output_count, midi_outputs, current_output,
                       live, first_query, discovered_from, scan>>

\* midi_get_num_devs returning midi_output_count whatever midi_query returned
midi_get_num_devs_unchecked(q) ==
    /\ Queried(q)
    /\ last' = Last("midi_get_num_devs", 0, q.midi_output_count,
                    <<>>, FALSE, TRUE, QueryLog(q))
    /\ UNCHANGED <<current_output, sequencer_env, rawmidi_env, live>>

\* midi_get_num_devs after midi_query returned q
midi_get_num_devs_queried(q) ==
    /\ Queried(q)
    /\ last' = Last("midi_get_num_devs", 0, IF ~q.ret THEN 0 ELSE q.midi_output_count,
                    <<>>, FALSE, TRUE, QueryLog(q))
    /\ UNCHANGED <<current_output, sequencer_env, rawmidi_env, live>>

midi_get_num_devs_on(hosts) ==
    /\ \E h \in hosts :
          midi_get_num_devs_queried(
              midi_query(initialized, midi_output_count, midi_outputs, h))
    /\ UNCHANGED scan

\* midi_get_dev_name after midi_query returned q: strcpy(s,
\* midi_outputs[num].name); reading outside the array is a fault
midi_get_dev_name_queried(num, q) ==
    /\ Queried(q)
    /\ last' = Last("midi_get_dev_name", num,
                    IF ~q.ret THEN "" ELSE OutputAt(q.midi_outputs, num).name,
                    <<>>, q.ret /\ (num < 0 \/ num >= 2 * MAX_MIDI_DEVICES),
                    TRUE, QueryLog(q))
    /\ UNCHANGED <<current_output, sequencer_env, rawmidi_env, live>>

midi_get_dev_name_on(hosts) ==
    /\ \E num \in CfgIndexes : \E h \in hosts :
          midi_get_dev_name_queried(num,
              midi_query(initialized, midi_output_count, midi_outputs, h))
    /\ UNCHANGED scan

\* Every host of Hosts, and one byte of each kind
midi_init == midi_init_on(Hosts)
midi_write == midi_write_of(SomeBytes)
midi_get_num_devs == midi_get_num_devs_on(Hosts)
midi_get_dev_name == midi_get_dev_name_on(Hosts)

Next ==
    \/ midi_init
    \/ midi_close
    \/ midi_write
    \/ midi_get_num_devs
    \/ midi_get_dev_name

Spec == Init /\ [][Next]_vars

\* Every byte value, on one host
midi_init_one_host == midi_init_on(OneHost)
midi_write_any_byte == midi_write_of(Bytes)
midi_get_num_devs_one_host == midi_get_num_devs_on(OneHost)
midi_get_dev_name_one_host == midi_get_dev_name_on(OneHost)

NextBytes ==
    \/ midi_init_one_host
    \/ midi_close
    \/ midi_write_any_byte
    \/ midi_get_num_devs_one_host
    \/ midi_get_dev_name_one_host

SpecBytes == Init /\ [][NextBytes]_vars

\* Discovery alone, on every host of QueryHosts
midi_get_num_devs_any_host == midi_get_num_devs_on(QueryHosts)
midi_get_dev_name_any_host == midi_get_dev_name_on(QueryHosts)

NextQuery ==
    \/ midi_get_num_devs_any_host
    \/ midi_get_dev_name_any_host

SpecQuery == Init /\ [][NextQuery]_vars

\* Discovery one backend call at a time.  midi_query runs on the caller's thread without suspension: while it has a
\* next step it takes it
SpecScan == Init /\ [][NextScan]_vars /\ WF_vars(NextScan)

-----------------------------------------------------------------------------
(* Properties *)

\* the entries of the array the count covers
Listed == SubSeq(midi_outputs, 1, Min(midi_output_count, Len(midi_outputs)))

\* C1: once `initialized` is true the device list is frozen.  Every later
\* call, whatever host it finds, leaves the flag set and the count and every
\* stored entry (name and address) as they were; midi_get_num_devs keeps
\* returning that count and midi_get_dev_name the name stored at the index.
C1_ListFrozen ==
    [][initialized =>
          /\ initialized'
          /\ midi_output_count' = midi_output_count
          /\ midi_outputs' = midi_outputs
          /\ (last'.op = "midi_get_num_devs" => last'.ret = midi_output_count)
          /\ (last'.op = "midi_get_dev_name" /\ ~index_missing(last'.arg, midi_output_count)
                => last'.ret = midi_outputs[last'.arg + 1].name)]_vars

\* C1 witness: a discovery call made after the discovery had succeeded, on a
\* list of several devices
C1_Witness ==
    /\ initialized
    /\ midi_output_count > 1
    /\ last.op = "midi_get_num_devs"
    /\ ~last.query.enumerated
    /\ last.ret = midi_output_count

\* C2 as claimed: only the first midi_query call queries the backends; every
\* later call queries nothing and returns what the first call returned,
\* success or failure.
C2_OnlyFirstCallEnumerates ==
    [][(first_query # "none" /\ last'.queried) =>
          /\ ~last'.query.enumerated
          /\ last'.query.ret = (first_query = "ok")]_vars

\* C2 amended: a midi_query call queries the backends exactly when
\* `initialized` is false at the call, so every call made after a successful
\* discovery queries nothing and returns success, and every call made before
\* one (the first call, and each call after a failed discovery) enumerates.
C2_EnumeratesUntilSuccess ==
    [][last'.queried =>
          /\ last'.query.enumerated = ~initialized
          /\ (initialized => last'.query.ret)]_vars

\* C2 witness: a call that found the discovery done, queried nothing and
\* returned success
C2_Witness ==
    /\ last.queried
    /\ ~last.query.enumerated
    /\ last.query.ret
    /\ first_query = "ok"
    /\ last.op = "midi_init"

\* the host reports the RawPort address: a sub-device below the count of a
\* device unit of one of its cards, whose info query succeeds
HostHasRaw(h, a) ==
    \E i \in 1..Len(h.raw.cards) :
        /\ h.raw.cards[i].card = a.card
        /\ \E j \in 1..Len(h.raw.cards[i].devices) :
              /\ h.raw.cards[i].devices[j].device = a.device
              /\ a.sub >= 0 /\ a.sub < h.raw.cards[i].devices[j].sub_nr
              /\ a.sub \notin h.raw.cards[i].devices[j].sub_fail

\* the host reports the Sequencer address, on a port that passes the filter
HostHasSeq(h, a) ==
    \E i \in 1..Len(h.seq.clients) :
        /\ h.seq.clients[i].client = a.client
        /\ \E j \in 1..Len(h.seq.clients[i].ports) :
              /\ h.seq.clients[i].ports[j].port = a.port
              /\ "MIDI_GENERIC" \in h.seq.clients[i].ports[j].type
              /\ {"WRITE", "SUBS_WRITE"} \subseteq h.seq.clients[i].ports[j].caps

\* host order: the hosts number cards, device units, sub-devices, clients and
\* ports in the order they report them
RawBefore(a, b) ==
    \/ a.card < b.card
    \/ a.card = b.card /\ a.device < b.device
    \/ a.card = b.card /\ a.device = b.device /\ a.sub < b.sub
SeqBefore(a, b) ==
    \/ a.client < b.client
    \/ a.client = b.client /\ a.port < b.port

\* the number of RawPort entries among the listed ones
ListedRaw == Cardinality({ i \in 1..Len(Listed) : Listed[i].kind = "rawmidi" })

\* the listed entries are the RawPort query's entries followed by the
\* Sequencer query's, every one a device of the host h, in host order
RawThenSequencer(h, r, rawmidi, alsa_seq) ==
    /\ Len(Listed) = midi_output_count
    /\ midi_output_count = r + alsa_seq.ret
    /\ Listed = rawmidi.list \o alsa_seq.list
    /\ ListedRaw = r
    /\ \A i \in 1..Len(Listed) :
          IF i <= r
          THEN /\ Listed[i].kind = "rawmidi"
               /\ HostHasRaw(h, Listed[i].address)
               /\ i > 1 => RawBefore(Listed[i - 1].address, Listed[i].address)
          ELSE /\ Listed[i].kind = "alsa_seq"
               /\ HostHasSeq(h, Listed[i].address)
               /\ i > r + 1 => SeqBefore(Listed[i - 1].address, Listed[i].address)
    /\ (~h.raw.first_next \/ h.raw.cards = <<>>) => r = 0

\* the RawPort query's count as midi_query uses it: a failure counts as 0
RawThenSequencerOf(h, rawmidi, alsa_seq) ==
    RawThenSequencer(h, Max(0, rawmidi.ret), rawmidi, alsa_seq)

\* C3: after a successful discovery the entries below the count are the r
\* RawPort devices the RawPort query wrote, in host order, followed directly
\* by the s SequencerPort devices the Sequencer query wrote, in host order,
\* and the count is r + s; every listed device is one the host reported; when
\* the RawPort query failed or found no card the list starts with the first
\* SequencerPort device.  The list is a function of the host alone, so two
\* discoveries against the same host give the same index assignment.
C3_RawThenSequencer ==
    initialized =>
        RawThenSequencerOf(discovered_from,
                           midi_query_rawmidi(discovered_from.raw, MAX_MIDI_DEVICES),
                           midi_query_alsa_seq(discovered_from.seq, MAX_MIDI_DEVICES))

\* C3 witness: a discovery that found RawPort and SequencerPort devices has
\* just run: a RawPort device at index 0, a SequencerPort device at the last
C3_Witness ==
    /\ initialized
    /\ last.query.enumerated
    /\ ListedRaw > 1
    /\ ListedRaw < midi_output_count
    /\ Listed[1].kind = "rawmidi"
    /\ Listed[midi_output_count].kind = "alsa_seq"

\* C4: whatever the host reports, no entry is stored outside the
\* 2 * MAX_MIDI_DEVICES entries of midi_outputs, the count never exceeds that
\* number, and each backend query contributes at most MAX_MIDI_DEVICES.
C4_CapacityBound ==
    /\ Len(midi_outputs) <= 2 * MAX_MIDI_DEVICES
    /\ midi_output_count <= 2 * MAX_MIDI_DEVICES
    /\ last.query.rawmidi_count <= MAX_MIDI_DEVICES
    /\ last.query.alsa_seq_count <= MAX_MIDI_DEVICES
    /\ ListedRaw <= MAX_MIDI_DEVICES
    /\ Len(Listed) - ListedRaw <= MAX_MIDI_DEVICES

\* C4 witness: the discovery ran against the host that reports more RawPort
\* and more SequencerPort devices than MAX_MIDI_DEVICES, and filled the array
C4_Witness ==
    /\ last.query.enumerated
    /\ last.query.host = Host(RawBig, SeqBig)
    /\ last.query.rawmidi_count = MAX_MIDI_DEVICES
    /\ last.query.alsa_seq_count = MAX_MIDI_DEVICES
    /\ midi_output_count = 2 * MAX_MIDI_DEVICES

\* C5: a discovery that queried the backends succeeds exactly when the
\* host's sequencer could be opened.  A failed RawPort query counts as no
\* RawPort device.  When the Sequencer query fails the flag stays false,
\* midi_get_num_devs returns 0 whatever the RawPort query found, and midi_init
\* opens nothing.
C5_SucceedsIffSequencer ==
    (last.queried /\ last.query.enumerated) =>
        /\ last.query.ret = last.query.host.seq.open_ok
        /\ initialized = last.query.ret
        /\ (~last.query.host.raw.first_next /\ last.query.host.seq.open_ok)
              => /\ last.query.ret
                 /\ midi_output_count = last.query.alsa_seq_count
        /\ ~last.query.host.seq.open_ok
              => /\ ~initialized
                 /\ last.op = "midi_get_num_devs" => last.ret = 0
                 /\ last.op = "midi_init"
                       => /\ current_output = NULL
                          /\ last.calls = <<>>
                          /\ live = NoLive

\* C5 witness: midi_get_num_devs returned 0 after a discovery whose RawPort
\* query found a device and whose Sequencer query failed
C5_Witness ==
    /\ last.op = "midi_get_num_devs"
    /\ last.query.enumerated
    /\ ~last.query.host.seq.open_ok
    /\ last.query.rawmidi_count > 0
    /\ midi_output_count > 0
    /\ last.ret = 0

\* the device of the current-device slot
CurrentOutput == OutputAt(midi_outputs, current_output)

\* the index midi_init was given is not below the count midi_get_num_devs
\* reports
MissingIndexInit ==
    /\ last.op = "midi_init"
    /\ index_missing(last.arg, IF last.query.ret THEN midi_output_count ELSE 0)

\* a device is open: the slot is set and the backend of its device holds a
\* handle the host gave it, for the Sequencer with the port it created
DeviceOpen ==
    /\ current_output # NULL
    /\ \/ CurrentOutput.kind = "rawmidi" /\ rawmidi_env.midiout # NoPort
       \/ /\ CurrentOutput.kind = "alsa_seq"
          /\ sequencer_env.seq # NoSeq
          /\ live.ports > 0

\* C6: whenever midi_init has run with an index that is negative or not
\* below the device count, no device is open when it returns, whatever calls
\* came before: a following midi_write finds no open device to transmit to.
C6_MissingIndexLeavesNoneOpen ==
    MissingIndexInit => ~DeviceOpen

\* C7: a midi_write made while no device is open (no midi_init has opened
\* one, or midi_close has run since) feeds no codec, makes no ALSA call and
\* changes no state, for every byte.
C7_WriteUnopenedIsNoOp ==
    [][(last'.op = "midi_write" /\ ~DeviceOpen) =>
          /\ last'.calls = <<>>
          /\ last'.ret = -1
          /\ ~last'.fault
          /\ UNCHANGED <<initialized, midi_output_count, midi_outputs, current_output,
                         sequencer_env, rawmidi_env, live>>]_vars

\* the last call was a midi_write to a Sequencer device whose connection is open
SequencerWrite ==
    /\ last.op = "midi_write"
    /\ current_output # NULL
    /\ CurrentOutput.kind = "alsa_seq"
    /\ sequencer_env.seq # NoSeq

\* C8: a write to the open Sequencer connection whose byte completes no
\* message makes no ALSA call; one whose byte completes a message makes
\* exactly one snd_seq_event_output, of a direct event from env->src.port to
\* the subscribers, followed by one snd_seq_drain_output exactly when the
\* event is neither a Program Change nor a Channel Pressure.
C8_FlushPolicy ==
    SequencerWrite =>
        /\ ~last.fault
        /\ last.ret # 1 => last.calls = <<>>
        /\ last.ret = 1 =>
              /\ Len(last.calls) \in {1, 2}
              /\ last.calls[1].fn = "snd_seq_event_output"
              /\ last.calls[1].arg[1] = sequencer_env.seq
              /\ last.calls[1].arg[3] = "direct"
              /\ last.calls[1].arg[4] = sequencer_env.src.port
              /\ last.calls[1].arg[5] = SND_SEQ_ADDRESS_SUBSCRIBERS
              /\ Len(last.calls) = 2
                    <=> last.calls[1].arg[2] \notin {"PGMCHANGE", "CHANPRESS"}
              /\ Len(last.calls) = 2
                    => /\ last.calls[2].fn = "snd_seq_drain_output"
                       /\ last.calls[2].arg[1] = sequencer_env.seq
              /\ last.calls[1].arg[2] = "NOTEON" => Len(last.calls) = 2

\* C8 witness: a write completed a Program Change, which was output and not
\* drained
C8_Witness ==
    /\ SequencerWrite
    /\ last.ret = 1
    /\ Len(last.calls) = 1
    /\ last.calls[1].fn = "snd_seq_event_output"
    /\ last.calls[1].arg[2] = "PGMCHANGE"

\* midi_init has just opened a Sequencer device: the client was allocated and
\* the port created
SequencerOpened ==
    /\ last.op = "midi_init"
    /\ current_output # NULL
    /\ CurrentOutput.kind = "alsa_seq"
    /\ Len(last.calls) >= 2
    /\ last.calls[1].fn = "snd_seq_open"
    /\ last.calls[2].fn = "snd_seq_create_simple_port"
    /\ last.calls[2].ret >= 0

\* C9: when the device opened has the address of the port the backend has
\* just created on its new client, the destination is the broadcast address
\* and no snd_seq_connect_to is called.
C9_SelfLoopGuard ==
    (SequencerOpened
       /\ CurrentOutput.address = SeqAddr(last.calls[1].ret, last.calls[2].ret))
    => /\ \A i \in 1..Len(last.calls) : last.calls[i].fn # "snd_seq_connect_to"
       /\ sequencer_env.seq # NoSeq => sequencer_env.dest = Broadcast

\* the step is a midi_init that calls the open of a Sequencer device
SequencerOpenStep ==
    /\ last'.op = "midi_init"
    /\ last'.query.ret
    /\ ~index_missing(last'.arg, midi_output_count')
    /\ OutputAt(midi_outputs', last'.arg).kind = "alsa_seq"

\* the step is a midi_close that calls the close of a Sequencer device
SequencerCloseStep ==
    /\ last'.op = "midi_close"
    /\ current_output # NULL
    /\ CurrentOutput.kind = "alsa_seq"

\* C10: the open of a Sequencer device made while the connection is open
\* makes no ALSA call and leaves the connection and the resources held as
\* they were; so does the close made while it is closed; and there is never
\* more than one client, one port and one codec created by open.
C10_OpenOnce ==
    [][/\ (SequencerOpenStep /\ sequencer_env.seq # NoSeq)
             => /\ last'.calls = <<>>
                /\ UNCHANGED <<sequencer_env, rawmidi_env, live>>
       /\ (SequencerCloseStep /\ sequencer_env.seq = NoSeq)
             => /\ last'.calls = <<>>
                /\ UNCHANGED <<sequencer_env, rawmidi_env, live>>
       /\ live'.clients <= 1
       /\ live'.ports <= 1
       /\ live'.codecs <= 1
       /\ sequencer_env'.seq = NoSeq => live'.clients = 0 /\ live'.ports = 0]_vars

\* C10 witness: midi_init called the open of a Sequencer device while the
\* connection was open: it made no call, and one client is held
C10_Witness ==
    /\ last.op = "midi_init"
    /\ last.query.ret
    /\ ~index_missing(last.arg, midi_output_count)
    /\ CurrentOutput.kind = "alsa_seq"
    /\ last.calls = <<>>
    /\ sequencer_env.seq # NoSeq
    /\ live.clients = 1
    /\ live.codecs = 1

\* C11: after midi_close has returned, the current-device slot is empty and
\* neither backend holds a connection a device open made: the sequencer
\* client handle and the raw port handle are both absent, whatever calls came
\* before.
C11_CloseReleasesAll ==
    last.op = "midi_close" =>
        /\ current_output = NULL
        /\ sequencer_env.seq = NoSeq
        /\ rawmidi_env.midiout = NoPort

\* midi_init has just called the open of a Sequencer device, the client was
\* allocated and snd_seq_create_simple_port returned an error code
PortCreationFailed ==
    /\ last.op = "midi_init"
    /\ Len(last.calls) >= 2
    /\ last.calls[1].fn = "snd_seq_open"
    /\ last.calls[1].ret > 0
    /\ last.calls[2].fn = "snd_seq_create_simple_port"
    /\ last.calls[2].ret < 0

\* C13: when the port creation fails after the client was allocated, the
\* open releases the client and the connection stays closed: the client
\* handle is absent, no connect was attempted, no codec was allocated.
C13_PortFailureStaysClosed ==
    PortCreationFailed =>
        /\ sequencer_env.seq = NoSeq
        /\ \A i \in 1..Len(last.calls) : last.calls[i].fn # "snd_seq_connect_to"
        /\ ~sequencer_env.midi_codec.present
        /\ live.clients = 0

\* what is left of a name in the MAX_DEVICE_NAME_LEN buffer
Cut(text) ==
    IF Len(text) > MAX_DEVICE_NAME_LEN - 1
    THEN SubSeq(text, 1, MAX_DEVICE_NAME_LEN - 1)
    ELSE text

\* the names the host reports for a card and for a client
HostCardName(h, c) ==
    h.raw.cards[CHOOSE i \in 1..Len(h.raw.cards) : h.raw.cards[i].card = c].shortname
HostClientName(h, c) ==
    h.seq.clients[CHOOSE i \in 1..Len(h.seq.clients) : h.seq.clients[i].client = c].name

\* the name the claim gives the device `output` of host h
FormattedName(h, output) ==
    IF output.kind = "rawmidi"
    THEN Cut("rawmidi(" \o ToString(output.address.card) \o ":"
             \o ToString(output.address.device) \o ":"
             \o ToString(output.address.sub) \o "): "
             \o HostCardName(h, output.address.card))
    ELSE Cut("alsa_seq(" \o ToString(output.address.client) \o ":"
             \o ToString(output.address.port) \o "): "
             \o HostClientName(h, output.address.client))

\* C12: every listed device is named "rawmidi(c:d:s): N" or
\* "alsa_seq(k:p): N" from its address and the name the host reports for its
\* card or client, cut to MAX_DEVICE_NAME_LEN - 1 characters; (1,2,0,"Synth")
\* gives "rawmidi(1:2:0): Synth" and (128,0,"TiMidity") gives
\* "alsa_seq(128:0): TiMidity".
C12_NameFormat ==
    initialized =>
        /\ \A i \in 1..Len(Listed) :
              /\ Listed[i].name = FormattedName(discovered_from, Listed[i])
              /\ Len(Listed[i].name) <= MAX_DEVICE_NAME_LEN - 1
        /\ discovered_from.raw = RawSmall
              => Listed[1].name = "rawmidi(1:2:0): Synth"
        /\ discovered_from.seq = SeqOne
              => Listed[ListedRaw + 1].name = "alsa_seq(128:0): TiMidity"
        /\ discovered_from.raw = RawLong
              => Listed[14].name = "rawmidi(10:10:10): Sound card with a 31-char name"
        /\ discovered_from.seq = SeqLong
              => Listed[midi_output_count].name = "alsa_seq(130:12): A software synthesizer with qui"

\* C12 witness: the discovery listed devices whose names do not fit, and
\* midi_get_dev_name has returned the name of the first device
C12_Witness ==
    /\ initialized
    /\ discovered_from = Host(RawLong, SeqLong)
    /\ Len(Listed[14].name) = MAX_DEVICE_NAME_LEN - 1
    /\ Len(Listed[midi_output_count].name) = MAX_DEVICE_NAME_LEN - 1
    /\ last.op = "midi_get_dev_name"
    /\ last.ret = "rawmidi(2:0:0): Two"

\* the port's type includes generic MIDI and its capabilities include write
\* and subscribable write
Qualifies(port_info) ==
    /\ "MIDI_GENERIC" \in port_info.type
    /\ "WRITE" \in port_info.caps
    /\ "SUBS_WRITE" \in port_info.caps

\* the host ports, as pairs of the client's and the port's place in the walk
HostPorts(h) ==
    UNION { { <<i, j>> : j \in 1..Len(h.seq.clients[i].ports) } :
            i \in 1..Len(h.seq.clients) }
PortAt(h, ij) == h.seq.clients[ij[1]].ports[ij[2]]
PortAddr(h, ij) == SeqAddr(h.seq.clients[ij[1]].client, PortAt(h, ij).port)
QualifyingPorts(h) == { ij \in HostPorts(h) : Qualifies(PortAt(h, ij)) }

\* the listed SequencerPort entries
ListedSeq == { k \in 1..Len(Listed) : Listed[k].kind = "alsa_seq" }

\* C18: a host port is listed if and only if its type includes generic MIDI
\* and its capabilities include both write and subscribable write, as long
\* as the MAX_MIDI_DEVICES entries of the Sequencer query are not used up; a
\* port that lacks one of the three bits is never listed; every listed
\* SequencerPort device stores the client and port of one qualifying host
\* port, and no two store the same.
C18_PortFilter ==
    initialized =>
        /\ \A k \in ListedSeq :
              \E ij \in HostPorts(discovered_from) :
                  /\ Qualifies(PortAt(discovered_from, ij))
                  /\ Listed[k].address = PortAddr(discovered_from, ij)
        /\ \A k1, k2 \in ListedSeq :
              Listed[k1].address = Listed[k2].address => k1 = k2
        /\ \A ij \in HostPorts(discovered_from) :
              ~Qualifies(PortAt(discovered_from, ij))
                 => \A k \in ListedSeq : Listed[k].address # PortAddr(discovered_from, ij)
        /\ Cardinality(ListedSeq)
              = Min(MAX_MIDI_DEVICES, Cardinality(QualifyingPorts(discovered_from)))
        /\ Cardinality(ListedSeq) < MAX_MIDI_DEVICES
              => \A ij \in HostPorts(discovered_from) :
                    Qualifies(PortAt(discovered_from, ij))
                       => \E k \in ListedSeq :
                             Listed[k].address = PortAddr(discovered_from, ij)

\* C18 witness: the discovery ran on the host whose ports lack the type bit or
\* one capability bit, and listed its three qualifying ports
C18_Witness ==
    /\ initialized
    /\ last.query.enumerated
    /\ discovered_from.seq = SeqMixed
    /\ Cardinality(ListedSeq) = 3
    /\ \E k \in ListedSeq : Listed[k].address = SeqAddr(128, 3)

\* no probe of the RawPort query fails on the host
NoProbeFails(h) ==
    /\ h.raw.first_next
    /\ \A i \in 1..Len(h.raw.cards) :
          /\ h.raw.cards[i].name_ok
          /\ h.raw.cards[i].ctl_ok
          /\ h.raw.cards[i].first_dev_ok
          /\ h.raw.cards[i].next_ok
          /\ \A j \in 1..Len(h.raw.cards[i].devices) :
                /\ h.raw.cards[i].devices[j].info_ok
                /\ h.raw.cards[i].devices[j].sub_fail = {}

\* the output sub-devices of the host, at most `most` of one device unit
HostRawOutputs(h, most) ==
    UNION { UNION { { RawAddr(h.raw.cards[i].card, h.raw.cards[i].devices[j].device, sub) :
                        sub \in 0..(Min(h.raw.cards[i].devices[j].sub_nr, most) - 1) } :
                    j \in 1..Len(h.raw.cards[i].devices) } :
            i \in 1..Len(h.raw.cards) }

\* the listed RawPort entries are exactly the sub-devices `outputs`, one
\* entry each, in host order
RawListedExactly(outputs) ==
    /\ ListedRaw = Cardinality(outputs)
    /\ \A a \in outputs :
          \E k \in 1..ListedRaw : Listed[k].kind = "rawmidi" /\ Listed[k].address = a
    /\ \A k \in 1..ListedRaw :
          /\ Listed[k].kind = "rawmidi"
          /\ Listed[k].address \in outputs
          /\ k > 1 => RawBefore(Listed[k - 1].address, Listed[k].address)

\* the discovery listed the devices of a host on which no probe fails
DiscoveredComplete == initialized /\ NoProbeFails(discovered_from)

C14_DiscoveryTerminates == <>(scan.pc = "done")

\* the ALSA calls of the last public call that went to fn
CallsTo(fn) == { i \in 1..Len(last.calls) : last.calls[i].fn = fn }

\* midi_init has just called the open of a Sequencer device, and the open
\* allocated a client
ClientAllocated ==
    /\ last.op = "midi_init"
    /\ Len(last.calls) >= 1
    /\ last.calls[1].fn = "snd_seq_open"
    /\ last.calls[1].ret > 0

\* and its snd_seq_connect_to failed
ConnectFailed ==
    /\ ClientAllocated
    /\ \E i \in CallsTo("snd_seq_connect_to") : last.calls[i].ret < 0

\* the Sequencer connection is Open: client handle and codec both present
SequencerIsOpen == sequencer_env.seq # NoSeq /\ sequencer_env.midi_codec.present

\* the codec allocation of the last open succeeded
CodecAllocated == \E i \in CallsTo("snd_midi_event_new") : last.calls[i].ret >= 0

\* one connect attempt for a concrete destination, none for the broadcast
\* address
ConnectAttempts ==
    ClientAllocated =>
        Cardinality(CallsTo("snd_seq_connect_to"))
            = (IF sequencer_env.dest.client # SND_SEQ_ADDRESS_SUBSCRIBERS THEN 1 ELSE 0)

\* a message completed by a write that follows an open whose connect failed
\* is output to the subscribers
OutputAfterConnectFailure ==
    (ConnectFailed /\ SequencerIsOpen /\ last'.op = "midi_write" /\ last'.ret = 1)
        => /\ Len(last'.calls) >= 1
           /\ last'.calls[1].fn = "snd_seq_event_output"
           /\ last'.calls[1].arg[5] = SND_SEQ_ADDRESS_SUBSCRIBERS

\* C15: whenever the connect attempt of a Sequencer open that has created its
\* port fails, the open ends in the Open state, client handle and codec both
\* present; one connect attempt is made for a concrete destination and none
\* for the broadcast address; completed messages written afterwards are
\* output to subscribers.
C15_ConnectFailureEndsOpen ==
    [][/\ (ConnectFailed' /\ SequencerOpened') => SequencerIsOpen'
       /\ ConnectAttempts'
       /\ OutputAfterConnectFailure]_vars

\* C15 as the code has it: a failed connect attempt does not end the open,
\* which goes on to snd_midi_event_new and ends in the Open state exactly
\* when that allocation succeeds; one connect attempt is made for a concrete
\* destination and none for the broadcast address; completed messages written
\* afterwards are output to subscribers.
C15_ConnectFailureNonFatal ==
    [][/\ ConnectFailed' =>
             /\ \A i \in CallsTo("snd_seq_connect_to")' :
                   /\ i < Len(last'.calls)
                   /\ last'.calls[i + 1].fn = "snd_midi_event_new"
             /\ SequencerIsOpen' <=> CodecAllocated'
       /\ ConnectAttempts'
       /\ OutputAfterConnectFailure]_vars

\* C15 witness: an open whose one connect attempt, to a concrete destination,
\* failed has ended in the Open state
C15_Witness ==
    /\ ConnectFailed
    /\ Cardinality(CallsTo("snd_seq_connect_to")) = 1
    /\ sequencer_env.dest.client # SND_SEQ_ADDRESS_SUBSCRIBERS
    /\ SequencerIsOpen
    /\ current_output # NULL

\* the open midi_init has just dispatched failed at its first ALSA call: the
\* host refused the raw port, or the sequencer client allocation failed
OpenFailed ==
    /\ last.op = "midi_init"
    /\ Len(last.calls) = 1
    /\ last.calls[1].fn \in {"snd_rawmidi_open", "snd_seq_open"}
    /\ last.calls[1].ret < 0

\* C16: whenever the open performed by midi_init has failed, a midi_write
\* that follows it makes no ALSA call: it transmits nothing, in every
\* reachable state in which midi_init was called.
C16_OpenFailureNoOpWrites ==
    [][(OpenFailed /\ last'.op = "midi_write") => last'.calls = <<>>]_vars

\* C17: a midi_close of a Sequencer device made while the connection is open
\* calls snd_seq_drain_output on the client first and snd_seq_close on it
\* next, also right after a write that output an event without draining, and
\* then frees the codec; when it returns the client handle and the codec are
\* both absent.
C17_DrainBeforeRelease ==
    [][(SequencerCloseStep /\ sequencer_env.seq # NoSeq) =>
          /\ Len(last'.calls) >= 2
          /\ last'.calls[1] = Call("snd_seq_drain_output", <<sequencer_env.seq>>, 0)
          /\ last'.calls[2] = Call("snd_seq_close", <<sequencer_env.seq>>, 0)
          /\ \A i \in 1..Len(last'.calls) :
                last'.calls[i].fn = "snd_seq_drain_output" => i = 1
          /\ sequencer_env.midi_codec.present
                => /\ Len(last'.calls) = 3
                   /\ last'.calls[3].fn = "snd_midi_event_free"
          /\ sequencer_env'.seq = NoSeq
          /\ ~sequencer_env'.midi_codec.present
          /\ current_output' = NULL]_vars

\* C17 witness: midi_close has closed an open Sequencer connection: it
\* drained, closed the client and freed the codec, and both are absent
C17_Witness ==
    /\ last.op = "midi_close"
    /\ Len(last.calls) = 3
    /\ last.calls[1].fn = "snd_seq_drain_output"
    /\ last.calls[2].fn = "snd_seq_close"
    /\ last.calls[3].fn = "snd_midi_event_free"
    /\ sequencer_env.seq = NoSeq
    /\ ~sequencer_env.midi_codec.present

\* the codec allocation of the open midi_init has just dispatched failed
CodecAllocationFailed ==
    /\ ClientAllocated
    /\ \E i \in CallsTo("snd_midi_event_new") : last.calls[i].ret < 0

\* C20: after every public call the sequencer client handle is present
\* exactly when the codec is present; no midi_write feeds a byte into an
\* absent codec; and an open whose codec allocation failed has closed the
\* client it allocated, as its last call, and left the connection Closed.
C20_ClientIffCodec ==
    /\ (sequencer_env.seq # NoSeq) <=> sequencer_env.midi_codec.present
    /\ last.op = "midi_write" => ~last.fault
    /\ CodecAllocationFailed =>
          /\ sequencer_env.seq = NoSeq
          /\ last.calls[Len(last.calls)]
                = Call("snd_seq_close", <<last.calls[1].ret>>, 0)
          /\ live.clients = 0

\* C20 witness: an open allocated its client, failed to allocate the codec,
\* and left neither
C20_Witness ==
    /\ CodecAllocationFailed
    /\ sequencer_env.seq = NoSeq
    /\ ~sequencer_env.midi_codec.present
    /\ current_output # NULL

====
